---------------------------- MODULE Spec2Model ----------------------------
(***************************************************************************)
(* A model of the AnimData.D2 codec of d2animdata (src/d2animdata.py):     *)
(* the block hash, the ActionTriggers mapping, the Record class with its   *)
(* validated properties, pack_record / unpack_record and the table codec   *)
(* dumps / loads.                                                          *)
(*                                                                         *)
(* Representation of Python values:                                        *)
(*   - a str is a sequence of code points, a bytes object a sequence of    *)
(*     numbers in 0..255 (index i of Python is index i+1 here);            *)
(*   - an int that has to span the whole unsigned 32-bit range is a record *)
(*     [hi, lo] standing for hi * 65536 + lo with lo in 0..65535 (hi < 0   *)
(*     for a negative int), because TLC's integers are 32-bit signed     *)
(*     ones;   frames, codes, offsets and lengths are plain integers;      *)
(*   - a dict of triggers is a function from its frames to their codes;    *)
(*     the order in which the dict of a Record's trigger set holds its     *)
(*     keys, the order of their insertion, is the sequence keys;           *)
(*   - a call's outcome is a record: ok = TRUE with the returned value in  *)
(*     val, or ok = FALSE with the exception class in exc, its message in  *)
(*     msg and, for AnimDataError, its offset attribute in offset.         *)
(***************************************************************************)
EXTENDS Integers, Sequences, FiniteSets, TLC

VARIABLES
    records,    \* the list of Record objects built so far (a caller's list)
    data,       \* the bytes at hand: dumps' output, possibly damaged since
    edit,       \* what happened to data since dumps wrote it
    rec,        \* one Record object under assignment (NoObject before it exists)
    keys,       \* the keys of rec.triggers.data, in the order the dict holds them
    trig,       \* one ActionTriggers object (NoObject before it exists)
    codes,      \* the frame codes read from to_codes so far
    it,         \* the generator to_codes returned (NoObject before there is one)
    call,       \* the last call made: its name and arguments
    ret         \* the outcome of the last call

vars == <<records, data, edit, rec, keys, trig, codes, it, call, ret>>

(***************************************************************************)
(* Program constants.                                                      *)
(***************************************************************************)
FRAME_MAX == 144

BLOCK_COUNT == 256

\* struct.calcsize(RECORD_COUNT_FORMAT), "<L"
RECORD_COUNT_SIZE == 4

\* the "8s" field of RECORD_FORMAT
COF_FIELD_SIZE == 8

\* struct.calcsize(RECORD_FORMAT), "<8sLL144B": 8 + 4 + 4 + 144
RECORD_SIZE == COF_FIELD_SIZE + 4 + 4 + FRAME_MAX

\* the length _validate_cof_name demands
COF_NAME_LEN == 7

\* the largest trigger code ActionTriggers.__setitem__ accepts
CODE_MAX == 3

\* the base of the two-limb representation of a Python int
LIMB == 256 * 256

Int2(h, l) == [hi |-> h, lo |-> l]

\* Loops of the code are evaluated in runs of Stride iterations, which keeps
\* the evaluation of a loop of 144 or 256 iterations shallow.
Stride == 4 * 4

Min(a, b) == IF a < b THEN a ELSE b

\* a small non-negative int as a two-limb int
ToInt2(n) == Int2(n \div LIMB, n % LIMB)

\* 0xFFFFFFFF
DWORD_MAX == Int2(65535, 65535)

Int2Le(a, b) == a.hi < b.hi \/ (a.hi = b.hi /\ a.lo <= b.lo)

Int2Lt(a, b) == a.hi < b.hi \/ (a.hi = b.hi /\ a.lo < b.lo)

\* Python's None, where an int is expected (AnimDataError.offset)
None == -1

\* the value of rec / trig: no object before the constructor has returned
\* one, the object afterwards
NoObject == [live |-> FALSE, obj |-> <<>>]

Object(x) == [live |-> TRUE, obj |-> x]

(***************************************************************************)
(* Outcomes of calls.                                                      *)
(***************************************************************************)
Return(v) == [ok |-> TRUE, val |-> v, exc |-> "", msg |-> "", offset |-> None]

Raise(e, m) == [ok |-> FALSE, val |-> <<>>, exc |-> e, msg |-> m, offset |-> None]

\* raise AnimDataError(message, offset=offset)
RaiseAnimDataError(m, off) ==
    [ok |-> FALSE, val |-> <<>>, exc |-> "AnimDataError", msg |-> m, offset |-> off]

\* UnicodeEncodeError and UnicodeDecodeError are subclasses of ValueError
IsValueError(e) == e \in {"ValueError", "UnicodeEncodeError", "UnicodeDecodeError"}

(***************************************************************************)
(* Strings.  str.upper() and str.lower() per character, for the code       *)
(* points 0..255 and U+1E9E: upper() maps U+00DF to "SS", U+00B5 to U+039C *)
(* and U+00FF to U+0178, and leaves U+1E9E alone; lower() maps U+1E9E to   *)
(* U+00DF.                                                                 *)
(***************************************************************************)
UpperChar(c) ==
    IF c \in 97..122 THEN <<c - 32>>
    ELSE IF c = 223 THEN <<83, 83>>
    ELSE IF c = 181 THEN <<924>>
    ELSE IF c = 255 THEN <<376>>
    ELSE IF c \in 224..254 /\ c # 247 THEN <<c - 32>>
    ELSE <<c>>

LowerChar(c) ==
    IF c \in 65..90 THEN c + 32
    ELSE IF c \in 192..222 /\ c # 215 THEN c + 32
    ELSE IF c = 7838 THEN 223
    ELSE c

RECURSIVE Upper(_)
Upper(s) == IF s = <<>> THEN <<>> ELSE UpperChar(Head(s)) \o Upper(Tail(s))

Lower(s) == [i \in 1..Len(s) |-> LowerChar(s[i])]

RECURSIVE SumSeq(_)
SumSeq(s) == IF s = <<>> THEN 0 ELSE Head(s) + SumSeq(Tail(s))

\* sum(map(ord, cof_name.upper())) % 256
hash_cof_name_no_upper(cof_name) == SumSeq(cof_name) % 256

hash_cof_name(cof_name) == SumSeq(Upper(cof_name)) % 256

IsAscii(s) == \A i \in 1..Len(s) : s[i] < 128

\* index (1-based) of the first 0 in s, or Len(s) + 1
RECURSIVE FirstNull(_, _)
FirstNull(s, i) ==
    IF i > Len(s) THEN i ELSE IF s[i] = 0 THEN i ELSE FirstNull(s, i + 1)

(***************************************************************************)
(* Arguments whose type the code tests with isinstance are tagged values:  *)
(* t is the Python type's name, v the value.                               *)
(***************************************************************************)
PyStr(s) == [t |-> "str", v |-> s]

\* an int argument; v is a plain integer for a frame or a code and a
\* two-limb int for frames_per_direction and animation_speed
PyInt(n) == [t |-> "int", v |-> n]

PyNone == [t |-> "NoneType", v |-> <<>>]

(***************************************************************************)
(* class ActionTriggers(UserDict).                                         *)
(***************************************************************************)
EmptyTriggers == [f \in {} |-> 0]

\* self.data[frame] = code
DictSet(T, frame, code) ==
    [f \in (DOMAIN T) \cup {frame} |-> IF f = frame THEN code ELSE T[f]]

\* ActionTriggers.__setitem__(self, frame, code) on the mapping T: the
\* mapping afterwards, or the exception raised (T is then left alone)
SetItemNoCodeCheck(T, frame, code) ==
    IF frame.t # "int" THEN Raise("TypeError", "frame must be an integer")
    ELSE IF ~(0 <= frame.v /\ frame.v < FRAME_MAX)
        THEN Raise("ValueError", "frame must be between 0 and 143")
    ELSE IF code.t # "int" THEN Raise("TypeError", "code must be an integer")
    ELSE Return(DictSet(T, frame.v, code.v))

SetItem(T, frame, code) ==
    IF frame.t # "int" THEN Raise("TypeError", "frame must be an integer")
    ELSE IF ~(0 <= frame.v /\ frame.v < FRAME_MAX)
        THEN Raise("ValueError", "frame must be between 0 and 143")
    ELSE IF code.t # "int" THEN Raise("TypeError", "code must be an integer")
    ELSE IF ~(1 <= code.v /\ code.v <= CODE_MAX)
        THEN Raise("ValueError", "code must be between 1 and 3")
    ELSE Return(DictSet(T, frame.v, code.v))

\* MutableMapping.update(self, pairs), which UserDict.__init__ calls: one
\* __setitem__ per (frame, code) pair, in order; the first one that raises
\* ends the loop.  T is the mapping after the pairs applied so far.
RECURSIVE Update(_, _)
Update(T, pairs) ==
    IF pairs = <<>> THEN Return(T)
    ELSE LET r == SetItem(T, pairs[1][1], pairs[1][2])
         IN  IF r.ok THEN Update(r.val, Tail(pairs)) ELSE r

\* ActionTriggers(pairs)
NewActionTriggers(pairs) == Update(EmptyTriggers, pairs)

\* self.data after T.update(pairs), whether update returned or raised: the
\* pairs before the first one __setitem__ refuses have been applied
RECURSIVE UpdateApplied(_, _)
UpdateApplied(T, pairs) ==
    IF pairs = <<>> THEN T
    ELSE LET r == SetItem(T, pairs[1][1], pairs[1][2])
         IN  IF r.ok THEN UpdateApplied(r.val, Tail(pairs)) ELSE T

\* UserDict.__delitem__(self, frame): del self.data[frame]
DelItem(T, frame) ==
    IF frame.v \in DOMAIN T
        THEN Return([f \in (DOMAIN T) \ {frame.v} |-> T[f]])
    ELSE Raise("KeyError", "")

\* the frames of a list of (frame, code) pairs
Frames(pairs) == [i \in 1..Len(pairs) |-> pairs[i][1].v]

\* the keys, in the order the dict holds them, of the dict that holds the
\* mapping T after a call that had the frames to write, one after the
\* other, to the dict whose keys were order, or a key to delete.  A key the
\* dict holds keeps its place and a new key goes to the end; the writes the
\* call made are those of the frames T holds.
RECURSIVE DictKeys(_, _, _)
DictKeys(order, frames, T) ==
    IF frames = <<>> THEN SelectSeq(order, LAMBDA f : f \in DOMAIN T)
    ELSE DictKeys(IF \E i \in 1..Len(order) : order[i] = frames[1]
                      THEN order
                  ELSE Append(order, frames[1]),
                  Tail(frames), T)

\* ActionTriggers.__iter__(self): iter(sorted(self.data)), order being the
\* keys of self.data in the order the dict holds them; the sorted list has
\* at place i the key that i - 1 of the keys are less than
IterUnsorted(order) == order

Iter(order) ==
    [i \in 1..Len(order) |->
        CHOOSE k \in {order[j] : j \in 1..Len(order)} :
            Cardinality({j \in 1..Len(order) : order[j] < k}) = i - 1]

\* the (frame, code) items of the mapping T as tagged pairs, in the order
\* __iter__ gives its frames
Items(T, order) ==
    [i \in 1..Len(order) |->
        <<PyInt(Iter(order)[i]), PyInt(T[Iter(order)[i]])>>]

\* self.data |= other, the body of UserDict.__ior__: the pairs of other
\* are written to the dict one after the other, __setitem__ is not called
RECURSIVE Ior(_, _)
Ior(T, other) ==
    IF other = <<>> THEN T
    ELSE Ior(DictSet(T, other[1][1].v, other[1][2].v), Tail(other))

\* ActionTriggers.to_codes: self.get(frame, 0) for frame in range(FRAME_MAX)
to_codes_shifted(T) ==
    [i \in 1..FRAME_MAX |-> IF i \in DOMAIN T THEN T[i] ELSE 0]

to_codes(T) ==
    [i \in 1..FRAME_MAX |-> IF (i - 1) \in DOMAIN T THEN T[i - 1] ELSE 0]

\* one iteration of the loop of ActionTriggers.from_codes, on the mapping
\* obj built so far
FromCodesStep(obj, frame_codes, frame) ==
    IF frame >= FRAME_MAX THEN Return(obj)
    ELSE IF frame_codes[frame + 1] # 0
        THEN SetItem(obj, PyInt(frame), PyInt(frame_codes[frame + 1]))
    ELSE Return(obj)

\* the iterations lo..hi-1 of that loop, r being the outcome so far: the
\* iteration that raises ends the loop
RECURSIVE FromCodesRun(_, _, _, _)
FromCodesRun(r, frame_codes, lo, hi) ==
    IF ~r.ok \/ lo >= hi THEN r
    ELSE FromCodesRun(FromCodesStep(r.val, frame_codes, lo), frame_codes,
                      lo + 1, hi)

RECURSIVE FromCodesLoop(_, _, _, _)
FromCodesLoop(r, frame_codes, lo, hi) ==
    IF ~r.ok \/ lo >= hi THEN r
    ELSE FromCodesLoop(FromCodesRun(r, frame_codes, lo, Min(lo + Stride, hi)),
                       frame_codes, Min(lo + Stride, hi), hi)

\* ActionTriggers.from_codes(frame_codes): iterations past FRAME_MAX break
from_codes(frame_codes) ==
    FromCodesLoop(Return(EmptyTriggers), frame_codes, 0,
                  IF Len(frame_codes) < FRAME_MAX THEN Len(frame_codes)
                  ELSE FRAME_MAX + 1)

(***************************************************************************)
(* The validators of Record's managed properties.  Each returns the value  *)
(* to store, or raises.                                                    *)
(***************************************************************************)
validate_cof_name_max_len(value) ==
    IF value.t # "str" THEN Raise("TypeError", "cof_name must be a string")
    ELSE IF Len(value.v) > COF_NAME_LEN
        THEN Raise("ValueError", "COF name must have exactly 7 characters.")
    ELSE IF \E i \in 1..Len(value.v) : value.v[i] = 0
        THEN Raise("ValueError", "COF name must not contain a null character.")
    ELSE Return(value.v)

validate_cof_name(value) ==
    IF value.t # "str" THEN Raise("TypeError", "cof_name must be a string")
    ELSE IF Len(value.v) # COF_NAME_LEN
        THEN Raise("ValueError", "COF name must have exactly 7 characters.")
    ELSE IF \E i \in 1..Len(value.v) : value.v[i] = 0
        THEN Raise("ValueError", "COF name must not contain a null character.")
    ELSE Return(value.v)

validate_frames_per_direction(value) ==
    IF value.t # "int"
        THEN Raise("TypeError", "frames_per_direction must be an integer")
    ELSE IF ~(Int2Le(ToInt2(0), value.v) /\ Int2Le(value.v, DWORD_MAX))
        THEN Raise("ValueError", "frames_per_direction must be between 0 and 4294967295.")
    ELSE Return(value.v)

validate_animation_speed(value) ==
    IF value.t # "int"
        THEN Raise("TypeError", "animation_speed must be an integer")
    ELSE IF ~(Int2Le(ToInt2(0), value.v) /\ Int2Le(value.v, DWORD_MAX))
        THEN Raise("ValueError", "animation_speed must be between 0 and 4294967295.")
    ELSE Return(value.v)

\* ActionTriggers(value); value is a sequence of (frame, code) pairs
validate_triggers(value) == NewActionTriggers(value)

(***************************************************************************)
(* class Record.  The dataclass __init__ assigns the four fields in their  *)
(* declared order through ManagedProperty.__set__; the first validator     *)
(* that raises ends the construction.                                      *)
(***************************************************************************)
MakeRecord(c, f, a, t) ==
    [cof_name |-> c, frames_per_direction |-> f, animation_speed |-> a,
     triggers |-> t]

NewRecord(cof_name, frames_per_direction, animation_speed, triggers) ==
    LET c == validate_cof_name(cof_name)
        f == validate_frames_per_direction(frames_per_direction)
        a == validate_animation_speed(animation_speed)
        t == validate_triggers(triggers)
    IN  IF ~c.ok THEN c
        ELSE IF ~f.ok THEN f
        ELSE IF ~a.ok THEN a
        ELSE IF ~t.ok THEN t
        ELSE Return(MakeRecord(c.val, f.val, a.val, t.val))

\* str(n) for an int n >= 0: its decimal digits (what json writes for an
\* int key of a mapping)
RECURSIVE IntToStr(_)
IntToStr(n) ==
    IF n < 10 THEN <<48 + n>> ELSE IntToStr(n \div 10) \o <<48 + (n % 10)>>

\* the characters int() takes for white space at the ends of a string
IsSpace(c) ==
    c \in (9..13) \cup {32, 133, 160, 5760} \cup (8192..8202)
          \cup {8232, 8233, 8239, 8287, 12288}

\* the code points of the digit zero of every block of decimal digits
\* (category Nd); the nine after each are its digits 1 to 9
DigitZeros ==
    {48, 1632, 1776, 1984, 2406, 2534, 2662, 2790, 2918, 3046, 3174,
     3302, 3430, 3558, 3664, 3792, 3872, 4160, 4240, 6112, 6160, 6470,
     6608, 6784, 6800, 6992, 7088, 7232, 7248, 42528, 43216, 43264,
     43472, 43504, 43600, 44016, 65296, 66720, 68912, 69734, 69872,
     69942, 70096, 70384, 70736, 70864, 71248, 71360, 71472, 71904,
     72016, 72784, 73040, 73120, 92768, 92864, 93008, 120782, 120792,
     120802, 120812, 120822, 123200, 123632, 125264, 130032}

IsDigit(c) == \E z \in DigitZeros : c \in z..(z + 9)

DigitOf(c) == c - (CHOOSE z \in DigitZeros : c \in z..(z + 9))

\* the string without the white space at its two ends
RECURSIVE Strip(_)
Strip(s) ==
    IF s = <<>> THEN s
    ELSE IF IsSpace(s[1]) THEN Strip(Tail(s))
    ELSE IF IsSpace(s[Len(s)]) THEN Strip(SubSeq(s, 1, Len(s) - 1))
    ELSE s

\* the value of a run of decimal digits in which one "_" may stand between
\* two digits, or -1 if s is no such run; last is "" at the start, "d"
\* after a digit and "_" after an underscore
RECURSIVE DigitsValue(_, _, _)
DigitsValue(s, acc, last) ==
    IF s = <<>> THEN (IF last = "d" THEN acc ELSE -1)
    ELSE IF IsDigit(s[1])
        THEN DigitsValue(Tail(s), 10 * acc + DigitOf(s[1]), "d")
    ELSE IF s[1] = 95 /\ last = "d" THEN DigitsValue(Tail(s), acc, "_")
    ELSE -1

\* int(s) for a string s: white space at the ends is dropped, one sign may
\* lead the digits
IntOfStr(s, digits) ==
    IF DigitsValue(digits, 0, "") < 0
        THEN Raise("ValueError", "invalid literal for int() with base 10")
    ELSE IF s # <<>> /\ s[1] = 45
        THEN Return(PyInt(0 - DigitsValue(digits, 0, "")))
    ELSE Return(PyInt(DigitsValue(digits, 0, "")))

\* int(frame) for a key of obj["triggers"]: an int is kept, a string is
\* parsed, None raises TypeError
IntOfKey(frame) ==
    IF frame.t = "int" THEN Return(frame)
    ELSE IF frame.t = "str"
        THEN IntOfStr(Strip(frame.v),
                      IF Strip(frame.v) # <<>> /\ Strip(frame.v)[1] \in {43, 45}
                          THEN Tail(Strip(frame.v))
                      ELSE Strip(frame.v))
    ELSE Raise("TypeError",
               "int() argument must be a string, a bytes-like object or a real number")

\* {int(frame): code for frame, code in items}: the items of the new dict,
\* or the exception int() raised.  A key met again keeps its place and
\* takes the later value.
RECURSIVE IntKeys(_, _)
IntKeys(items, done) ==
    IF items = <<>> THEN Return(done)
    ELSE LET k == IntOfKey(items[1][1])
         IN  IF ~k.ok THEN k
             ELSE IF \E i \in 1..Len(done) : done[i][1] = k.val
                 THEN IntKeys(Tail(items),
                              [i \in 1..Len(done) |->
                                  IF done[i][1] = k.val
                                      THEN <<k.val, items[1][2]>>
                                  ELSE done[i]])
             ELSE IntKeys(Tail(items), Append(done, <<k.val, items[1][2]>>))

\* Record.make_dict(self): the four fields as a plain dict; the items of
\* "triggers" are in the order ActionTriggers.__iter__ gives; order is the
\* keys of self.triggers.data in the order the dict holds them
make_dict(self, order) ==
    [cof_name |-> PyStr(self.cof_name),
     frames_per_direction |-> PyInt(self.frames_per_direction),
     animation_speed |-> PyInt(self.animation_speed),
     triggers |-> Items(self.triggers, order)]

\* Record.from_dict(obj)
RecordOfDict(obj, triggers) ==
    IF ~triggers.ok THEN triggers
    ELSE NewRecord(obj.cof_name, obj.frames_per_direction, obj.animation_speed,
                   triggers.val)

from_dict(obj) == RecordOfDict(obj, IntKeys(obj.triggers, <<>>))

\* json.loads(json.dumps(obj)): the keys of a mapping come back as strings
JsonKeys(obj) ==
    [obj EXCEPT !.triggers =
        [i \in 1..Len(obj.triggers) |->
            <<PyStr(IntToStr(obj.triggers[i][1].v)), obj.triggers[i][2]>>]]

\* ManagedProperty.__set__ for obj.cof_name = value: the object afterwards,
\* or the exception (the object is then left alone)
SetCofName(obj, value) ==
    LET c == validate_cof_name(value)
    IN  IF c.ok THEN Return([obj EXCEPT !.cof_name = c.val]) ELSE c

\* obj.frames_per_direction = value
SetFramesPerDirectionStrict(obj, value) ==
    LET f == validate_frames_per_direction(value)
    IN  IF ~f.ok THEN f
        ELSE IF \E t \in DOMAIN obj.triggers : Int2Lt(f.val, ToInt2(t))
            THEN Raise("ValueError", "Trigger frame must be no greater than frames_per_direction")
        ELSE Return([obj EXCEPT !.frames_per_direction = f.val])

SetFramesPerDirection(obj, value) ==
    LET f == validate_frames_per_direction(value)
    IN  IF f.ok THEN Return([obj EXCEPT !.frames_per_direction = f.val]) ELSE f

\* obj.animation_speed = value
SetAnimationSpeed(obj, value) ==
    LET a == validate_animation_speed(value)
    IN  IF a.ok THEN Return([obj EXCEPT !.animation_speed = a.val]) ELSE a

\* obj.triggers = value
SetTriggers(obj, value) ==
    LET t == validate_triggers(value)
    IN  IF t.ok THEN Return([obj EXCEPT !.triggers = t.val]) ELSE t

(***************************************************************************)
(* The diagnostics.  Each logs one warning per finding and returns None;   *)
(* the value returned here is the list of findings logged, in order.       *)
(***************************************************************************)
\* the frames of the items (ascending by frame) that are >= frames_per_direction
OutOfBoundsStrict(items, frames_per_direction) ==
    LET sel == SelectSeq(items,
                   LAMBDA p : Int2Lt(frames_per_direction, ToInt2(p[1].v)))
    IN  [i \in 1..Len(sel) |-> sel[i][1].v]

OutOfBounds(items, frames_per_direction) ==
    LET sel == SelectSeq(items,
                   LAMBDA p : Int2Le(frames_per_direction, ToInt2(p[1].v)))
    IN  [i \in 1..Len(sel) |-> sel[i][1].v]

\* a < b for two strings: the code points compared from the left
RECURSIVE StrLess(_, _)
StrLess(a, b) ==
    IF b = <<>> THEN FALSE
    ELSE IF a = <<>> THEN TRUE
    ELSE IF a[1] # b[1] THEN a[1] < b[1]
    ELSE StrLess(Tail(a), Tail(b))

\* the sorted list q with the record r put behind the records whose name
\* is not greater than its own (list.sort is stable)
RECURSIVE InsertSorted(_, _)
InsertSorted(q, r) ==
    IF q = <<>> THEN <<r>>
    ELSE IF StrLess(r.cof_name, q[1].cof_name) THEN <<r>> \o q
    ELSE <<q[1]>> \o InsertSorted(Tail(q), r)

\* sort_records_by_cof_name(records): the list afterwards
RECURSIVE sort_records_by_cof_name(_)
sort_records_by_cof_name(recs) ==
    IF recs = <<>> THEN recs
    ELSE InsertSorted(sort_records_by_cof_name(SubSeq(recs, 1, Len(recs) - 1)),
                      recs[Len(recs)])

\* check_duplicate_cof_names(records): the loop over the records left, with
\* the names seen and the warnings logged so far
RECURSIVE DuplicatesIgnoringCase(_, _, _)
DuplicatesIgnoringCase(recs, cof_names_seen, warnings) ==
    IF recs = <<>> THEN Return(warnings)
    ELSE IF Upper(recs[1].cof_name) \in cof_names_seen
        THEN DuplicatesIgnoringCase(Tail(recs), cof_names_seen,
                                    Append(warnings, recs[1].cof_name))
    ELSE DuplicatesIgnoringCase(Tail(recs),
                                cof_names_seen \cup {Upper(recs[1].cof_name)},
                                warnings)

RECURSIVE Duplicates(_, _, _)
Duplicates(recs, cof_names_seen, warnings) ==
    IF recs = <<>> THEN Return(warnings)
    ELSE IF recs[1].cof_name \in cof_names_seen
        THEN Duplicates(Tail(recs), cof_names_seen,
                        Append(warnings, recs[1].cof_name))
    ELSE Duplicates(Tail(recs), cof_names_seen \cup {recs[1].cof_name}, warnings)

check_duplicate_cof_names(recs) == Duplicates(recs, {}, <<>>)

\* check_out_of_bounds_triggers(record), order being the keys of
\* record.triggers.data in the order the dict holds them
check_out_of_bounds_triggers(record, order) ==
    Return(OutOfBounds(Items(record.triggers, order),
                       record.frames_per_direction))

(***************************************************************************)
(* struct: "<L" and RECORD_FORMAT = "<8sLL144B".                           *)
(***************************************************************************)
\* struct.pack("<L", n): four bytes, least significant first
PackDwordBigEndian(n) ==
    <<n.hi \div 256, n.hi % 256, n.lo \div 256, n.lo % 256>>

PackDword(n) ==
    <<n.lo % 256, n.lo \div 256, n.hi % 256, n.hi \div 256>>

\* struct.unpack_from("<L", buffer, offset); offset + 4 <= len(buffer)
UnpackDword(buffer, offset) ==
    Int2(buffer[offset + 3] + 256 * buffer[offset + 4],
         buffer[offset + 1] + 256 * buffer[offset + 2])

\* the "8s" field: the bytes cut to 8, or padded with null bytes to 8
PackCofFieldUpper(b) ==
    [i \in 1..COF_FIELD_SIZE |-> IF i <= Len(b) THEN Upper(b)[i] ELSE 0]

PackCofField(b) == [i \in 1..COF_FIELD_SIZE |-> IF i <= Len(b) THEN b[i] ELSE 0]

\* pack_record(record): the 160 bytes, or the exception raised by
\* bytes(record.cof_name, encoding="ascii")
pack_record(record) ==
    IF ~IsAscii(record.cof_name)
        THEN Raise("UnicodeEncodeError", "'ascii' codec can't encode character")
    ELSE Return(PackCofField(record.cof_name)
                \o PackDword(record.frames_per_direction)
                \o PackDword(record.animation_speed)
                \o to_codes(record.triggers))

\* cof_name.split(b"\0", maxsplit=1)[0]
BeforeNull(b) == SubSeq(b, 1, FirstNull(b, 1) - 1)

\* str(b, encoding="ascii")
DecodeAscii(b) ==
    IF IsAscii(b) THEN Return(b)
    ELSE Raise("UnicodeDecodeError", "'ascii' codec can't decode byte")

\* The call Record(cof_name=..., ..., triggers=...) of unpack_record, given
\* the outcomes of str() and of from_codes(): the arguments are evaluated
\* first, in order, and the first one that raises ends the call.  The dict
\* of the trigger set from_codes built holds its frames in the order of
\* from_codes' loop, by ascending index.
UnpackedRecord(name, frames_per_direction, animation_speed, triggers) ==
    IF ~name.ok THEN name
    ELSE IF ~triggers.ok THEN triggers
    ELSE NewRecord(PyStr(name.val), PyInt(frames_per_direction),
                   PyInt(animation_speed),
                   Items(triggers.val,
                         SelectSeq([i \in 1..FRAME_MAX |-> i - 1],
                                   LAMBDA f : f \in DOMAIN triggers.val)))

\* The second try block of unpack_record, r being the outcome of Record():
\* "except ValueError" turns it into AnimDataError, any other exception
\* passes.
UnpackReturnNoWrap(r, offset) ==
    IF r.ok THEN Return([record |-> r.val, size |-> RECORD_SIZE]) ELSE r

UnpackReturn(r, offset) ==
    IF r.ok THEN Return([record |-> r.val, size |-> RECORD_SIZE])
    ELSE IF IsValueError(r.exc)
        THEN RaiseAnimDataError("Invalid record field", offset)
    ELSE r

\* unpack_record(buffer, offset): (Record, size) as [record, size], or
\* AnimDataError; struct.unpack_from raises struct.error when fewer than
\* RECORD_SIZE bytes follow offset
unpack_record(buffer, offset) ==
    IF offset + RECORD_SIZE > Len(buffer)
        THEN RaiseAnimDataError("Cannot unpack record", offset)
    ELSE UnpackReturn(
             UnpackedRecord(
                 DecodeAscii(BeforeNull(
                     SubSeq(buffer, offset + 1, offset + COF_FIELD_SIZE))),
                 UnpackDword(buffer, offset + COF_FIELD_SIZE),
                 UnpackDword(buffer, offset + COF_FIELD_SIZE + 4),
                 from_codes(SubSeq(buffer, offset + COF_FIELD_SIZE + 9,
                                   offset + RECORD_SIZE))),
             offset)

(***************************************************************************)
(* The table codec.                                                        *)
(***************************************************************************)
\* the hash check of loads on the outcome u of unpack_record at offset
CheckHashNoCheck(block_index, offset, u) == u

CheckHash(block_index, offset, u) ==
    IF ~u.ok THEN u
    ELSE IF block_index # hash_cof_name(u.val.record.cof_name)
        THEN RaiseAnimDataError("Incorrect hash", offset)
    ELSE u

\* records.append(record); offset += record_size
AppendRecord(st, u) ==
    IF ~u.ok THEN u
    ELSE Return([offset |-> st.offset + u.val.size,
                 records |-> Append(st.records, u.val.record)])

\* one iteration of the inner loop of loads, with the cursor and the list
\* records of the block in st
LoadRecord(buffer, block_index, st) ==
    AppendRecord(st, CheckHash(block_index, st.offset,
                               unpack_record(buffer, st.offset)))

\* the inner loop of loads, "for _ in range(record_count)", after done
\* iterations, r being the outcome so far: the iteration that raises ends
\* loads
RECURSIVE LoadRecords(_, _, _, _, _)
LoadRecords(r, buffer, block_index, record_count, done) ==
    IF ~r.ok \/ ~Int2Lt(ToInt2(done), record_count) THEN r
    ELSE LoadRecords(LoadRecord(buffer, block_index, r.val), buffer,
                     block_index, record_count, done + 1)

\* blocks.append(records)
AppendBlock(st, b) ==
    IF ~b.ok THEN b
    ELSE Return([offset |-> b.val.offset,
                 blocks |-> Append(st.blocks, b.val.records)])

\* one iteration of the outer loop of loads, for block block_index with the
\* cursor and the list blocks (one list of Records per block) in st
LoadBlock(buffer, block_index, st) ==
    IF st.offset + RECORD_COUNT_SIZE > Len(buffer)
        THEN RaiseAnimDataError("Cannot unpack record count", st.offset)
    ELSE AppendBlock(st,
             LoadRecords(Return([offset |-> st.offset + RECORD_COUNT_SIZE,
                                 records |-> <<>>]),
                         buffer, block_index, UnpackDword(buffer, st.offset), 0))

\* the iterations lo..hi-1 of that loop, r being the outcome so far: the
\* iteration that raises ends loads
RECURSIVE LoadBlocksRun(_, _, _, _)
LoadBlocksRun(r, buffer, lo, hi) ==
    IF ~r.ok \/ lo >= hi THEN r
    ELSE LoadBlocksRun(LoadBlock(buffer, lo, r.val), buffer, lo + 1, hi)

RECURSIVE LoadBlocks(_, _, _, _)
LoadBlocks(r, buffer, lo, hi) ==
    IF ~r.ok \/ lo >= hi THEN r
    ELSE LoadBlocks(LoadBlocksRun(r, buffer, lo, Min(lo + Stride, hi)),
                    buffer, Min(lo + Stride, hi), hi)

\* itertools.chain.from_iterable(blocks[lo..hi-1])
RECURSIVE ChainRun(_, _, _)
ChainRun(blocks, lo, hi) ==
    IF lo >= hi THEN <<>> ELSE blocks[lo] \o ChainRun(blocks, lo + 1, hi)

RECURSIVE Chain(_, _, _)
Chain(blocks, lo, hi) ==
    IF lo >= hi THEN <<>>
    ELSE ChainRun(blocks, lo, Min(lo + Stride, hi))
         \o Chain(blocks, Min(lo + Stride, hi), hi)

\* the size check of loads, r being the outcome of its loop
SizeCheckNoCheck(r, buffer) == r

SizeCheck(r, buffer) ==
    IF ~r.ok THEN r
    ELSE IF r.val.offset # Len(buffer)
        THEN RaiseAnimDataError("Data size mismatch", r.val.offset)
    ELSE r

\* loads up to its return statement: [offset, blocks], or AnimDataError
loads_blocks(buffer) ==
    SizeCheck(LoadBlocks(Return([offset |-> 0, blocks |-> <<>>]), buffer, 0,
                         BLOCK_COUNT),
              buffer)

\* return list(itertools.chain.from_iterable(blocks))
LoadsReturn(r) ==
    IF r.ok THEN Return(Chain(r.val.blocks, 1, Len(r.val.blocks) + 1)) ELSE r

\* loads(data): the list of Records, or AnimDataError
loads(buffer) == LoadsReturn(loads_blocks(buffer))

\* the packed records of one block, appended to packed; the first
\* pack_record that raises ends dumps
RECURSIVE PackBlock(_, _, _)
PackBlock(block, i, packed) ==
    IF i > Len(block) THEN Return(packed)
    ELSE LET p == pack_record(block[i])
         IN  IF p.ok THEN PackBlock(block, i + 1, packed \o p.val) ELSE p

\* hash_table[b] of dumps: the records whose hash is b, in the list's order
HashBlockDedup(recs, hashes, b) ==
    LET idx == {i \in 1..Len(recs) :
                    /\ hashes[i] = b
                    /\ \A j \in 1..(i - 1) : recs[j].cof_name # recs[i].cof_name}
        RECURSIVE Pick(_)
        Pick(i) == IF i > Len(recs) THEN <<>>
                   ELSE IF i \in idx THEN <<recs[i]>> \o Pick(i + 1)
                   ELSE Pick(i + 1)
    IN  Pick(1)

HashBlock(recs, hashes, b) ==
    LET idx == {i \in 1..Len(recs) : hashes[i] = b}
        RECURSIVE Pick(_)
        Pick(i) == IF i > Len(recs) THEN <<>>
                   ELSE IF i \in idx THEN <<recs[i]>> \o Pick(i + 1)
                   ELSE Pick(i + 1)
    IN  Pick(1)

\* one iteration of the second loop of dumps, for block b
DumpBlock(recs, hashes, b, packed_data) ==
    LET block == HashBlock(recs, hashes, b)
    IN  PackBlock(block, 1, packed_data \o PackDword(ToInt2(Len(block))))

\* the iterations lo..hi-1 of that loop, r being the outcome so far
RECURSIVE DumpBlocksRun(_, _, _, _, _)
DumpBlocksRun(r, recs, hashes, lo, hi) ==
    IF ~r.ok \/ lo >= hi THEN r
    ELSE DumpBlocksRun(DumpBlock(recs, hashes, lo, r.val), recs, hashes,
                       lo + 1, hi)

RECURSIVE DumpBlocks(_, _, _, _, _)
DumpBlocks(r, recs, hashes, lo, hi) ==
    IF ~r.ok \/ lo >= hi THEN r
    ELSE DumpBlocks(DumpBlocksRun(r, recs, hashes, lo, Min(lo + Stride, hi)),
                    recs, hashes, Min(lo + Stride, hi), hi)

\* dumps(records): the bytes, or the exception pack_record raised
dumps(recs) ==
    DumpBlocks(Return(<<>>), recs,
               [i \in 1..Len(recs) |-> hash_cof_name(recs[i].cof_name)],
               0, BLOCK_COUNT)

(***************************************************************************)
(* Inputs.                                                                 *)
(***************************************************************************)
\* the longest list of Records a caller builds
MaxRecords == 2

\* the most bytes appended to a written table
MaxExtra == 2

\* the name c "AAAAA" d
Str7(c, d) == <<c, 65, 65, 65, 65, 65, d>>

\* two-limb ints used as frames_per_direction and animation_speed
N20 == ToInt2(20)

N256 == ToInt2(256)

\* (frame, code) pairs as tagged arguments
Pair(f, c) == <<PyInt(f), PyInt(c)>>

\* The argument tuples of Record() a caller draws from: the scenario record
\* "AAAAAAA" (hash 199), the same name with lower-case letters (the same hash) and
\* the largest animation_speed, a name of a smaller hash (80) with the
\* largest frames_per_direction, a name with a non-ASCII character, and
\* arguments Record() rejects.
RecordArgs ==
    { <<PyStr(Str7(65, 65)), PyInt(N20), PyInt(N256), <<Pair(5, 1), Pair(10, 2)>> >>,
      <<PyStr(Str7(97, 97)), PyInt(ToInt2(0)), PyInt(DWORD_MAX), <<>> >>,
      <<PyStr(<<48, 48, 48, 48, 48, 48, 48>>), PyInt(DWORD_MAX), PyInt(ToInt2(65537)),
        <<Pair(143, 1), Pair(0, 3)>> >>,
      <<PyStr(Str7(223, 65)), PyInt(N20), PyInt(N256), <<>> >>,
      <<PyStr(<<65, 65, 65, 65, 65, 65>>), PyInt(N20), PyInt(N256), <<>> >>,
      <<PyStr(Str7(65, 65)), PyInt(N20), PyInt(N256), <<Pair(144, 1)>> >> }

NoCall == [fn |-> "", arg |-> <<>>]

NoEdit == [kind |-> "unwritten", pos |-> 0, val |-> 0]

Init ==
    /\ records = <<>>
    /\ data = <<>>
    /\ edit = NoEdit
    /\ rec = NoObject
    /\ keys = <<>>
    /\ trig = NoObject
    /\ codes = <<>>
    /\ it = NoObject
    /\ call = NoCall
    /\ ret = Return(<<>>)

(***************************************************************************)
(* The table codec in use: a caller builds a list of Records, dumps writes *)
(* it, the bytes may be damaged, loads and unpack_record read them.        *)
(***************************************************************************)
\* records.append(Record(...)), as cli_compile's loaders do
AddRecord(a) ==
    /\ edit.kind = "unwritten"
    /\ Len(records) < MaxRecords
    /\ call' = [fn |-> "Record", arg |-> a]
    /\ ret' = NewRecord(a[1], a[2], a[3], a[4])
    /\ records' = IF ret'.ok THEN Append(records, ret'.val) ELSE records
    /\ UNCHANGED <<it, keys, data, edit, rec, trig, codes>>

\* data = dumps(records)
Dumps ==
    /\ edit.kind = "unwritten"
    /\ call' = [fn |-> "dumps", arg |-> <<>>]
    /\ ret' = dumps(records)
    /\ data' = IF ret'.ok THEN ret'.val ELSE data
    /\ edit' = IF ret'.ok THEN [NoEdit EXCEPT !.kind = "none"] ELSE edit
    /\ UNCHANGED <<it, keys, records, rec, trig, codes>>

\* The places of a written table a damage is applied at.  The record of
\* list index i lies behind the counts of blocks 0..hash and behind the
\* records that dumps writes before it.
HashOf(i) == hash_cof_name(records[i].cof_name)

WrittenBefore(i) ==
    Cardinality({j \in 1..Len(records) :
                    HashOf(j) < HashOf(i) \/ (HashOf(j) = HashOf(i) /\ j < i)})

RecordStart(i) ==
    RECORD_COUNT_SIZE * (HashOf(i) + 1) + RECORD_SIZE * WrittenBefore(i)

RecordStarts == {RecordStart(i) : i \in 1..Len(records)}

CutPoints ==
    {0, 1, Len(data) - 1}
    \cup {s + 1 : s \in RecordStarts}
    \cup {s + COF_FIELD_SIZE + 8 + 72 : s \in RecordStarts}
    \cup {s + RECORD_SIZE - 1 : s \in RecordStarts}

\* (offset, byte) pairs: the first byte of the file, bytes of a name field,
\* bytes of a frame-code array, and bytes of the record count before a record
Patches ==
    {<<3, 255>>}
    \cup UNION {
        { <<s, 66>>, <<s, 97>>, <<s, 200>>, <<s, 0>>, <<s + 7, 65>>,
          <<s + COF_FIELD_SIZE + 8, 4>>, <<s + COF_FIELD_SIZE + 8 + 5, 2>>,
          <<s + COF_FIELD_SIZE + 8 + 143, 255>>, <<s + RECORD_SIZE - 1, 4>>,
          <<s - RECORD_COUNT_SIZE, 0>>, <<s - RECORD_COUNT_SIZE, 2>> }
        : s \in RecordStarts }

\* A written table that loads has accepted is damaged once.
Accepted == edit.kind = "none" /\ call.fn = "loads" /\ ret.ok

\* the file loses its tail: data[:k]
Truncate(k) ==
    /\ Accepted
    /\ k < Len(data)
    /\ data' = SubSeq(data, 1, k)
    /\ edit' = [kind |-> "truncate", pos |-> k, val |-> 0]
    /\ call' = NoCall
    /\ ret' = Return(<<>>)
    /\ UNCHANGED <<it, keys, records, rec, trig, codes>>

\* a byte is appended to the file: data + bytes([b])
Extend(b) ==
    /\ Accepted \/ edit.kind = "extend"
    /\ (IF edit.kind = "none" THEN 0 ELSE Len(data) - edit.pos) < MaxExtra
    /\ data' = Append(data, b)
    /\ edit' = [kind |-> "extend",
                pos |-> IF edit.kind = "none" THEN Len(data) ELSE edit.pos,
                val |-> b]
    /\ call' = NoCall
    /\ ret' = Return(<<>>)
    /\ UNCHANGED <<it, keys, records, rec, trig, codes>>

\* one byte of the file changes: data[pos] = b
Patch(pos, b) ==
    /\ Accepted
    /\ pos < Len(data)
    /\ data[pos + 1] # b
    /\ data' = [data EXCEPT ![pos + 1] = b]
    /\ edit' = [kind |-> "patch", pos |-> pos, val |-> b]
    /\ call' = NoCall
    /\ ret' = Return(<<>>)
    /\ UNCHANGED <<it, keys, records, rec, trig, codes>>

\* the calls that read the written table and leave it as it is: one made
\* right after another returns what it would have returned in its place
ReadCalls == {"loads", "unpack_record", "dumps(loads)"}

\* loads(data)
Loads ==
    /\ call.fn \notin ReadCalls
    /\ call' = [fn |-> "loads", arg |-> <<>>]
    /\ ret' = loads(data)
    /\ UNCHANGED <<it, keys, records, data, edit, rec, trig, codes>>

\* unpack_record(data, offset)
UnpackRecord(offset) ==
    /\ edit.kind # "unwritten"
    /\ call.fn \notin ReadCalls
    /\ call' = [fn |-> "unpack_record", arg |-> offset]
    /\ ret' = unpack_record(data, offset)
    /\ UNCHANGED <<it, keys, records, data, edit, rec, trig, codes>>

\* dumps(L) for the list L that loads(data) has just returned
Redump ==
    /\ call.fn = "loads" /\ ret.ok
    /\ call' = [fn |-> "dumps(loads)", arg |-> <<>>]
    /\ ret' = dumps(ret.val)
    /\ UNCHANGED <<it, keys, records, data, edit, rec, trig, codes>>

\* check_duplicate_cof_names(records), run on the list before it is written
CheckDuplicateCofNames ==
    /\ edit.kind = "unwritten"
    /\ call' = [fn |-> "check_duplicate_cof_names", arg |-> <<>>]
    /\ ret' = check_duplicate_cof_names(records)
    /\ UNCHANGED <<it, keys, records, data, edit, rec, trig, codes>>

\* sort_records_by_cof_name(records), as cli_compile does before it writes
SortRecords ==
    /\ edit.kind = "unwritten"
    /\ call' = [fn |-> "sort_records_by_cof_name", arg |-> <<>>]
    /\ ret' = Return(<<>>)
    /\ records' = sort_records_by_cof_name(records)
    /\ UNCHANGED <<it, keys, data, edit, rec, trig, codes>>

Next ==
    \/ \E a \in RecordArgs : AddRecord(a)
    \/ SortRecords
    \/ Dumps
    \/ \E k \in CutPoints : Truncate(k)
    \/ \E b \in {0, 65} : Extend(b)
    \/ \E p \in Patches : Patch(p[1], p[2])
    \/ Loads
    \/ \E s \in RecordStarts : UnpackRecord(s)
    \/ Redump
    \/ CheckDuplicateCofNames

Spec == Init /\ [][Next]_vars

(***************************************************************************)
(* hash_cof_name in use.                                                   *)
(***************************************************************************)
\* the longest of the short strings hash_cof_name is applied to
MaxHashLen == 3

\* "A", "a", "B", "0", U+00DF and U+1E9E
HashAlphabet == {65, 97, 66, 48, 223, 7838}

StringsUpTo(n) == UNION {[1..k -> HashAlphabet] : k \in 0..n}

HashInputs ==
    StringsUpTo(MaxHashLen) \cup {Str7(c, d) : c, d \in HashAlphabet}

\* hash_cof_name(s)
Hash(s) ==
    /\ call' = [fn |-> "hash_cof_name", arg |-> s]
    /\ ret' = Return(hash_cof_name(s))
    /\ UNCHANGED <<it, keys, records, data, edit, rec, trig, codes>>

NextHash == \E s \in HashInputs : Hash(s)

SpecHash == Init /\ [][NextHash]_vars

(***************************************************************************)
(* ActionTriggers in use.                                                  *)
(***************************************************************************)
\* the longest list of (frame, code) pairs an ActionTriggers is built from
MaxPairs == 2

PairPool ==
    {Pair(10, 1), Pair(10, 2), Pair(0, 3), Pair(143, 1), Pair(144, 1),
     Pair(-1, 1), Pair(5, 0), Pair(5, 4)}

PairLists == UNION {[1..k -> PairPool] : k \in 0..MaxPairs}

\* trig = ActionTriggers(pairs)
NewTriggers(pairs) ==
    /\ ~trig.live
    /\ call' = [fn |-> "ActionTriggers", arg |-> pairs]
    /\ ret' = NewActionTriggers(pairs)
    /\ trig' = IF ret'.ok THEN Object(ret'.val) ELSE trig
    /\ UNCHANGED <<it, keys, records, data, edit, rec, codes>>

\* it = trig.to_codes(); codes = list(it): the generator runs to its end
\* with nothing in between, as under pack_record's *record.triggers.to_codes().
\* A generator is about to read self.get(frame, 0); it has returned once
\* frame is FRAME_MAX.
ToCodes ==
    /\ trig.live
    /\ call' = [fn |-> "to_codes", arg |-> <<>>]
    /\ codes' = to_codes(trig.obj)
    /\ it' = Object([frame |-> FRAME_MAX])
    /\ ret' = Return(codes')
    /\ UNCHANGED <<records, data, edit, rec, keys, trig>>

\* it = trig.to_codes(); codes = []: a generator that has not run yet
IterCodes ==
    /\ trig.live
    /\ call' = [fn |-> "iter", arg |-> <<>>]
    /\ codes' = <<>>
    /\ it' = Object([frame |-> 0])
    /\ ret' = Return(<<>>)
    /\ UNCHANGED <<records, data, edit, rec, keys, trig>>

\* codes.append(next(it)): the generator resumes, reads self.get(frame, 0)
\* from the trigger set as it is now and yields it; past the last frame it
\* returns, and next raises StopIteration
NextCode ==
    /\ it.live
    /\ call' = [fn |-> "next", arg |-> <<>>]
    /\ ret' = IF it.obj.frame >= FRAME_MAX THEN Raise("StopIteration", "")
              ELSE IF it.obj.frame \in DOMAIN trig.obj
                  THEN Return(trig.obj[it.obj.frame])
              ELSE Return(0)
    /\ codes' = IF ret'.ok THEN Append(codes, ret'.val) ELSE codes
    /\ it' = IF ret'.ok THEN Object([frame |-> it.obj.frame + 1]) ELSE it
    /\ UNCHANGED <<records, data, edit, rec, keys, trig>>

\* ActionTriggers.from_codes(codes)
FromCodes ==
    /\ codes # <<>>
    /\ call' = [fn |-> "from_codes", arg |-> <<>>]
    /\ ret' = from_codes(codes)
    /\ UNCHANGED <<it, keys, records, data, edit, rec, trig, codes>>

\* trig[frame] = code
AssignItem(frame, code) ==
    /\ trig.live
    /\ call' = [fn |-> "__setitem__", arg |-> <<frame, code>>]
    /\ ret' = SetItem(trig.obj, frame, code)
    /\ trig' = IF ret'.ok THEN Object(ret'.val) ELSE trig
    /\ UNCHANGED <<it, keys, records, data, edit, rec, codes>>

\* trig |= other
IorItems(other) ==
    /\ trig.live
    /\ call' = [fn |-> "__ior__", arg |-> other]
    /\ ret' = Return(Ior(trig.obj, other))
    /\ trig' = Object(ret'.val)
    /\ UNCHANGED <<it, keys, records, data, edit, rec, codes>>

NextTriggers ==
    \/ \E pairs \in PairLists : NewTriggers(pairs)
    \/ \E p \in PairPool : AssignItem(p[1], p[2])
    \/ \E o \in {<<Pair(200, 9)>>, <<Pair(10, 0)>>} : IorItems(o)
    \/ ToCodes
    \/ IterCodes
    \/ NextCode
    \/ FromCodes

SpecTriggers == Init /\ [][NextTriggers]_vars

(***************************************************************************)
(* One Record in use.                                                      *)
(***************************************************************************)
\* names of 0, 6, 7 and 8 characters, with and without a null character
NamePool ==
    { <<>>, <<65, 65, 65, 65, 65, 65>>, Str7(65, 65), Str7(97, 66),
      <<65, 65, 65, 0, 65, 65, 65>>, <<65, 65, 65, 65, 65, 65, 0>>,
      <<65, 65, 65, 65, 65, 65, 65, 65>>, Str7(223, 65) }

\* values assigned to frames_per_direction and animation_speed: 0, 10, 20,
\* 0xFFFFFFFF, -1, 0x100000000 and None
DwordPool ==
    {PyInt(ToInt2(0)), PyInt(ToInt2(10)), PyInt(N20), PyInt(DWORD_MAX), PyInt(Int2(-1, 65535)),
     PyInt(Int2(65536, 0)), PyNone}

\* lists of (frame, code) pairs assigned to triggers, one of them with its
\* frames in descending order
TriggersPool ==
    {<<>>, <<Pair(5, 1), Pair(10, 2)>>, <<Pair(10, 2), Pair(5, 1)>>, <<Pair(143, 3)>>,
     <<Pair(5, 1), Pair(144, 2)>>, <<Pair(10, 1), Pair(10, 2)>>}

\* mappings merged into a trigger set by |=, as lists of their items (all
\* with int keys and int values): a valid entry, a frame past the last, a
\* code of 0
IorPool == {<<Pair(20, 1)>>, <<Pair(200, 9)>>, <<Pair(20, 0)>>}

OneRecordArgs ==
    {<<PyStr(n), PyInt(N20), PyInt(N256), <<Pair(5, 1), Pair(10, 2)>> >>
        : n \in NamePool}
    \cup {<<PyStr(Str7(65, 65)), d, PyInt(N256), t>>
            : d \in DwordPool, t \in TriggersPool}

\* rec = Record(cof_name, frames_per_direction, animation_speed, triggers)
RecNew(a) ==
    /\ ~rec.live
    /\ call' = [fn |-> "Record", arg |-> a]
    /\ ret' = NewRecord(a[1], a[2], a[3], a[4])
    /\ rec' = IF ret'.ok THEN Object(ret'.val) ELSE rec
    /\ keys' = IF ret'.ok THEN DictKeys(<<>>, Frames(a[4]), ret'.val.triggers)
               ELSE keys
    /\ UNCHANGED <<it, records, data, edit, trig, codes>>

\* rec.cof_name = value
AssignCofName(value) ==
    /\ rec.live
    /\ call' = [fn |-> "cof_name", arg |-> value]
    /\ ret' = SetCofName(rec.obj, value)
    /\ rec' = IF ret'.ok THEN Object(ret'.val) ELSE rec
    /\ UNCHANGED <<it, keys, records, data, edit, trig, codes>>

\* rec.frames_per_direction = value
AssignFramesPerDirection(value) ==
    /\ rec.live
    /\ call' = [fn |-> "frames_per_direction", arg |-> value]
    /\ ret' = SetFramesPerDirection(rec.obj, value)
    /\ rec' = IF ret'.ok THEN Object(ret'.val) ELSE rec
    /\ UNCHANGED <<it, keys, records, data, edit, trig, codes>>

\* rec.animation_speed = value
AssignAnimationSpeed(value) ==
    /\ rec.live
    /\ call' = [fn |-> "animation_speed", arg |-> value]
    /\ ret' = SetAnimationSpeed(rec.obj, value)
    /\ rec' = IF ret'.ok THEN Object(ret'.val) ELSE rec
    /\ UNCHANGED <<it, keys, records, data, edit, trig, codes>>

\* rec.triggers = value
AssignTriggers(value) ==
    /\ rec.live
    /\ call' = [fn |-> "triggers", arg |-> value]
    /\ ret' = SetTriggers(rec.obj, value)
    /\ rec' = IF ret'.ok THEN Object(ret'.val) ELSE rec
    /\ keys' = IF ret'.ok THEN DictKeys(<<>>, Frames(value), ret'.val.triggers)
               ELSE keys
    /\ UNCHANGED <<it, records, data, edit, trig, codes>>

\* rec.triggers[frame] = code
TriggersSetItem(frame, code) ==
    /\ rec.live
    /\ call' = [fn |-> "triggers.__setitem__", arg |-> <<frame, code>>]
    /\ ret' = SetItem(rec.obj.triggers, frame, code)
    /\ rec' = IF ret'.ok THEN Object([rec.obj EXCEPT !.triggers = ret'.val]) ELSE rec
    /\ keys' = DictKeys(keys, <<frame.v>>, rec'.obj.triggers)
    /\ UNCHANGED <<it, records, data, edit, trig, codes>>

\* rec.triggers.update(pairs)
TriggersUpdate(pairs) ==
    /\ rec.live
    /\ call' = [fn |-> "triggers.update", arg |-> pairs]
    /\ ret' = Update(rec.obj.triggers, pairs)
    /\ rec' = Object([rec.obj EXCEPT !.triggers = UpdateApplied(rec.obj.triggers, pairs)])
    /\ keys' = DictKeys(keys, Frames(pairs), rec'.obj.triggers)
    /\ UNCHANGED <<it, records, data, edit, trig, codes>>

\* del rec.triggers[frame]
TriggersDelItem(frame) ==
    /\ rec.live
    /\ call' = [fn |-> "triggers.__delitem__", arg |-> frame]
    /\ ret' = DelItem(rec.obj.triggers, frame)
    /\ rec' = IF ret'.ok THEN Object([rec.obj EXCEPT !.triggers = ret'.val]) ELSE rec
    /\ keys' = DictKeys(keys, <<>>, rec'.obj.triggers)
    /\ UNCHANGED <<it, records, data, edit, trig, codes>>

\* rec.triggers |= other: UserDict.__ior__ merges other into the dict of
\* the trigger set and returns the set itself, which is then assigned to
\* rec.triggers: ManagedProperty.__set__ builds an ActionTriggers from its
\* items, in the order __iter__ gives them, and stores it; when that
\* raises, the merged set stays where it was
TriggersIorAssign(other) ==
    /\ rec.live
    /\ call' = [fn |-> "triggers |=", arg |-> other]
    /\ ret' = validate_triggers(
                  Items(Ior(rec.obj.triggers, other),
                        DictKeys(keys, Frames(other), Ior(rec.obj.triggers, other))))
    /\ rec' = Object([rec.obj EXCEPT !.triggers = Ior(rec.obj.triggers, other)])
    /\ keys' = IF ret'.ok
                   THEN Frames(Items(rec'.obj.triggers,
                                     DictKeys(keys, Frames(other), rec'.obj.triggers)))
               ELSE DictKeys(keys, Frames(other), rec'.obj.triggers)
    /\ UNCHANGED <<it, records, data, edit, trig, codes>>

\* t = rec.triggers; t |= other: UserDict.__ior__ alone
TriggersIor(other) ==
    /\ rec.live
    /\ call' = [fn |-> "triggers.__ior__", arg |-> other]
    /\ ret' = Return(Ior(rec.obj.triggers, other))
    /\ rec' = Object([rec.obj EXCEPT !.triggers = Ior(rec.obj.triggers, other)])
    /\ keys' = DictKeys(keys, Frames(other), rec'.obj.triggers)
    /\ UNCHANGED <<it, records, data, edit, trig, codes>>

\* the calls that leave the Record as it is: one made right after another
\* returns what it would have returned in its place
RecordReadCalls ==
    {"pack_record", "unpack_record", "dumps", "loads", "make_dict", "json",
     "from_dict", "check_out_of_bounds_triggers"}

\* pack_record(rec)
PackRecord ==
    /\ rec.live
    /\ call.fn \notin RecordReadCalls
    /\ call' = [fn |-> "pack_record", arg |-> <<>>]
    /\ ret' = pack_record(rec.obj)
    /\ UNCHANGED <<it, keys, records, data, edit, rec, trig, codes>>

\* unpack_record(b) for the bytes b that pack_record(rec) has just returned
UnpackPacked ==
    /\ call.fn = "pack_record" /\ ret.ok
    /\ call' = [fn |-> "unpack_record", arg |-> 0]
    /\ ret' = unpack_record(ret.val, 0)
    /\ UNCHANGED <<it, keys, records, data, edit, rec, trig, codes>>

\* dumps([rec]), for the Record pack_record has just been given
DumpsOne ==
    /\ rec.live
    /\ call.fn = "pack_record"
    /\ call' = [fn |-> "dumps", arg |-> <<>>]
    /\ ret' = dumps(<<rec.obj>>)
    /\ UNCHANGED <<it, keys, records, data, edit, rec, trig, codes>>

\* loads(b) for the bytes b that dumps([rec]) has just returned
LoadsDumped ==
    /\ call.fn = "dumps" /\ ret.ok
    /\ call' = [fn |-> "loads", arg |-> <<>>]
    /\ ret' = loads(ret.val)
    /\ UNCHANGED <<it, keys, records, data, edit, rec, trig, codes>>

\* d = rec.make_dict()
MakeDict ==
    /\ rec.live
    /\ call.fn \notin RecordReadCalls
    /\ call' = [fn |-> "make_dict", arg |-> <<>>]
    /\ ret' = Return(make_dict(rec.obj, keys))
    /\ UNCHANGED <<it, keys, records, data, edit, rec, trig, codes>>

\* d = json.loads(json.dumps(d)) for the dict make_dict has just returned
JsonRoundTrip ==
    /\ call.fn = "make_dict"
    /\ call' = [fn |-> "json", arg |-> <<>>]
    /\ ret' = Return(JsonKeys(ret.val))
    /\ UNCHANGED <<it, keys, records, data, edit, rec, trig, codes>>

\* Record.from_dict(d) for the dict just returned
FromDict ==
    /\ call.fn \in {"make_dict", "json"}
    /\ call' = [fn |-> "from_dict", arg |-> ret.val]
    /\ ret' = from_dict(ret.val)
    /\ UNCHANGED <<it, keys, records, data, edit, rec, trig, codes>>

\* Record.from_dict(d) for a dict d written by hand, with one trigger
FromDictOf(key) ==
    /\ call.fn \notin RecordReadCalls
    /\ call' = [fn |-> "from_dict",
                arg |-> [cof_name |-> PyStr(Str7(65, 65)),
                         frames_per_direction |-> PyInt(N20),
                         animation_speed |-> PyInt(N256),
                         triggers |-> <<(<<key, PyInt(1)>>)>>]]
    /\ ret' = from_dict(call'.arg)
    /\ UNCHANGED <<it, keys, records, data, edit, rec, trig, codes>>

\* check_out_of_bounds_triggers(rec)
CheckOutOfBounds ==
    /\ rec.live
    /\ call.fn \notin RecordReadCalls
    /\ call' = [fn |-> "check_out_of_bounds_triggers", arg |-> <<>>]
    /\ ret' = check_out_of_bounds_triggers(rec.obj, keys)
    /\ UNCHANGED <<it, keys, records, data, edit, rec, trig, codes>>

NextRecord ==
    \/ \E a \in OneRecordArgs : RecNew(a)
    \/ \E n \in NamePool : AssignCofName(PyStr(n))
    \/ \E d \in DwordPool : AssignFramesPerDirection(d)
    \/ \E d \in {PyInt(N256), PyInt(Int2(65536, 0)), PyNone} : AssignAnimationSpeed(d)
    \/ \E t \in TriggersPool : AssignTriggers(t)
    \/ \E p \in {Pair(20, 2), Pair(144, 1), Pair(5, 4)} : TriggersSetItem(p[1], p[2])
    \* bulk updates: all pairs valid, an invalid pair after or before a valid one
    \/ \E u \in {<<Pair(20, 1)>>, <<Pair(20, 3), Pair(144, 1)>>,
                 <<Pair(144, 1), Pair(20, 3)>>} : TriggersUpdate(u)
    \/ \E f \in {20, 99} : TriggersDelItem(PyInt(f))
    \/ \E o \in IorPool : TriggersIorAssign(o)
    \/ \E o \in IorPool : TriggersIor(o)
    \/ UnpackPacked
    \/ DumpsOne
    \/ LoadsDumped
    \/ CheckOutOfBounds
    \/ MakeDict
    \/ JsonRoundTrip
    \/ FromDict
    \* the keys "+5", "-5", " 5 ", "1_0", "x", "", U+0665 and None
    \/ \E k \in {PyStr(<<43, 53>>), PyStr(<<45, 53>>), PyStr(<<32, 53, 32>>),
                 PyStr(<<49, 95, 48>>), PyStr(<<120>>), PyStr(<<>>),
                 PyStr(<<1637>>), PyNone} : FromDictOf(k)
    \/ PackRecord

SpecRecord == Init /\ [][NextRecord]_vars

(***************************************************************************)
(* The earlier variant of the module, animdata.py: a Record holds a tuple  *)
(* of ActionTrigger objects, and its setters compare the trigger frames    *)
(* with frames_per_direction.                                              *)
(***************************************************************************)
\* an ActionTrigger object as an item of a list
Trigger(frame, code) == [t |-> "ActionTrigger", v |-> [frame |-> frame, code |-> code]]

\* an item that is no ActionTrigger: the tuple (frame, code)
NoTrigger(frame, code) == [t |-> "tuple", v |-> [frame |-> frame, code |-> code]]

\* the setter of ActionTrigger.frame: the value stored, or the exception
ActionTrigger_frame(value) ==
    IF value.t # "int" THEN Raise("TypeError", "frame must be an integer")
    ELSE IF ~(0 <= value.v /\ value.v < FRAME_MAX)
        THEN Raise("ValueError", "frame must be between 0 and 143")
    ELSE Return(value.v)

\* the setter of ActionTrigger.code
ActionTrigger_code(value) ==
    IF value.t # "int" THEN Raise("TypeError", "code must be an integer")
    ELSE IF ~(1 <= value.v /\ value.v <= 3)
        THEN Raise("ValueError", "code must be between 1 and 3")
    ELSE Return(value.v)

\* the setter of Record.cof_name
Record_cof_name(value) ==
    IF value.t # "str" THEN Raise("TypeError", "cof_name must be a string")
    ELSE IF Len(value.v) # 7
        THEN Raise("ValueError", "COF name must have exactly 7 characters.")
    ELSE IF \E i \in 1..Len(value.v) : value.v[i] = 0
        THEN Raise("ValueError", "COF name must not contain a null character.")
    ELSE Return(value.v)

\* the setter of Record.animation_speed
Record_animation_speed(value) ==
    IF value.t # "int"
        THEN Raise("TypeError", "animation_speed must be an integer")
    ELSE IF ~(Int2Le(ToInt2(0), value.v) /\ Int2Le(value.v, DWORD_MAX))
        THEN Raise("ValueError", "animation_speed must be between 0 and 4294967295.")
    ELSE Return(value.v)

\* Record._check_frames(self, frames_per_direction, triggers)
check_frames(frames_per_direction, triggers) ==
    IF \E i \in 1..Len(triggers) :
            Int2Lt(frames_per_direction, ToInt2(triggers[i].frame))
        THEN Raise("ValueError",
                   "Trigger frame must be no greater than than frames_per_direction")
    ELSE Return(<<>>)

\* the setter of Record.frames_per_direction; has_triggers says whether
\* self.triggers is set yet (it is not while __init__ runs)
Record_frames_per_direction(has_triggers, triggers, value) ==
    IF value.t # "int"
        THEN Raise("TypeError", "frames_per_direction must be an integer")
    ELSE IF ~(Int2Le(ToInt2(0), value.v) /\ Int2Le(value.v, DWORD_MAX))
        THEN Raise("ValueError", "frames_per_direction must be between 0 and 4294967295.")
    ELSE IF has_triggers /\ ~check_frames(value.v, triggers).ok
        THEN check_frames(value.v, triggers)
    ELSE Return(value.v)

\* the first item of the list the loop of the triggers setter refuses: one
\* that is no ActionTrigger, or one whose frame an item before it has (0 if
\* the loop refuses none)
FirstRefused(value) ==
    LET bad == {i \in 1..Len(value) :
                    \/ value[i].t # "ActionTrigger"
                    \/ \E j \in 1..(i - 1) : value[j].v.frame = value[i].v.frame}
    IN  IF bad = {} THEN 0 ELSE CHOOSE i \in bad : \A j \in bad : i <= j

\* the setter of Record.triggers: the tuple stored, or the exception
Record_triggers(has_frames_per_direction, frames_per_direction, value, refused) ==
    IF refused # 0 /\ value[refused].t # "ActionTrigger"
        THEN Raise("TypeError", "triggers must contain only ActionTrigger instances")
    ELSE IF refused # 0
        THEN Raise("ValueError", "Cannot assign another trigger to a frame already in use.")
    ELSE IF /\ has_frames_per_direction
            /\ ~check_frames(frames_per_direction,
                             [i \in 1..Len(value) |-> value[i].v]).ok
        THEN check_frames(frames_per_direction, [i \in 1..Len(value) |-> value[i].v])
    ELSE Return([i \in 1..Len(value) |-> value[i].v])

\* Record(cof_name, frames_per_direction, animation_speed, triggers) of
\* animdata.py: __init__ assigns the fields in this order
StrictRecordInit(c, f, a, triggers) ==
    IF ~c.ok THEN c
    ELSE IF ~f.ok THEN f
    ELSE IF ~a.ok THEN a
    ELSE IF ~Record_triggers(TRUE, f.val, triggers, FirstRefused(triggers)).ok
        THEN Record_triggers(TRUE, f.val, triggers, FirstRefused(triggers))
    ELSE Return(MakeRecord(c.val, f.val, a.val,
                    Record_triggers(TRUE, f.val, triggers, FirstRefused(triggers)).val))

StrictRecord(cof_name, frames_per_direction, animation_speed, triggers) ==
    StrictRecordInit(Record_cof_name(cof_name),
                     Record_frames_per_direction(FALSE, <<>>, frames_per_direction),
                     Record_animation_speed(animation_speed),
                     triggers)

\* the longest list of triggers a Record of animdata.py is given
MaxTriggers == 2

\* the lists given as triggers: ActionTriggers at frames 5, 10 and 11, and
\* a tuple that is not an ActionTrigger
TriggerLists ==
    UNION {[1..k -> {Trigger(5, 1), Trigger(10, 2), Trigger(11, 3), NoTrigger(1, 1)}]
             : k \in 0..MaxTriggers}

StrictArgs ==
    {<<PyStr(n), PyInt(ToInt2(f)), PyInt(N256), t>> :
        n \in {Str7(65, 65), <<65, 65, 65, 65, 65, 65>>},
        f \in {5, 10}, t \in TriggerLists}

\* rec = animdata.Record(cof_name, frames_per_direction, animation_speed, triggers)
StrictNew(a) ==
    /\ ~rec.live
    /\ call' = [fn |-> "Record", arg |-> a]
    /\ ret' = StrictRecord(a[1], a[2], a[3], a[4])
    /\ rec' = IF ret'.ok THEN Object(ret'.val) ELSE rec
    /\ UNCHANGED <<it, keys, records, data, edit, trig, codes>>

\* rec.frames_per_direction = value
StrictAssignFramesPerDirection(value) ==
    /\ rec.live
    /\ call' = [fn |-> "frames_per_direction", arg |-> value]
    /\ ret' = Record_frames_per_direction(TRUE, rec.obj.triggers, value)
    /\ rec' = IF ret'.ok
                THEN Object([rec.obj EXCEPT !.frames_per_direction = ret'.val])
              ELSE rec
    /\ UNCHANGED <<it, keys, records, data, edit, trig, codes>>

\* rec.triggers = value
StrictAssignTriggers(value) ==
    /\ rec.live
    /\ call' = [fn |-> "triggers", arg |-> value]
    /\ ret' = Record_triggers(TRUE, rec.obj.frames_per_direction, value,
                              FirstRefused(value))
    /\ rec' = IF ret'.ok THEN Object([rec.obj EXCEPT !.triggers = ret'.val]) ELSE rec
    /\ UNCHANGED <<it, keys, records, data, edit, trig, codes>>

\* rec.triggers[i].frame = value: the ActionTrigger the Record holds is the
\* caller's object, and its setter knows nothing of the Record
StrictAssignFrame(i, value) ==
    /\ rec.live
    /\ call' = [fn |-> "triggers[i].frame", arg |-> <<i, value>>]
    /\ ret' = IF i > Len(rec.obj.triggers)
                THEN Raise("IndexError", "tuple index out of range")
              ELSE ActionTrigger_frame(value)
    /\ rec' = IF ret'.ok
                THEN Object([rec.obj EXCEPT !.triggers[i].frame = ret'.val])
              ELSE rec
    /\ UNCHANGED <<it, keys, records, data, edit, trig, codes>>

\* rec.triggers[i].code = value
StrictAssignCode(i, value) ==
    /\ rec.live
    /\ call' = [fn |-> "triggers[i].code", arg |-> <<i, value>>]
    /\ ret' = IF i > Len(rec.obj.triggers)
                THEN Raise("IndexError", "tuple index out of range")
              ELSE ActionTrigger_code(value)
    /\ rec' = IF ret'.ok
                THEN Object([rec.obj EXCEPT !.triggers[i].code = ret'.val])
              ELSE rec
    /\ UNCHANGED <<it, keys, records, data, edit, trig, codes>>

\* rec.cof_name = value
StrictAssignCofName(value) ==
    /\ rec.live
    /\ call' = [fn |-> "cof_name", arg |-> value]
    /\ ret' = Record_cof_name(value)
    /\ rec' = IF ret'.ok THEN Object([rec.obj EXCEPT !.cof_name = ret'.val]) ELSE rec
    /\ UNCHANGED <<it, keys, records, data, edit, trig, codes>>

\* rec.animation_speed = value
StrictAssignAnimationSpeed(value) ==
    /\ rec.live
    /\ call' = [fn |-> "animation_speed", arg |-> value]
    /\ ret' = Record_animation_speed(value)
    /\ rec' = IF ret'.ok
                THEN Object([rec.obj EXCEPT !.animation_speed = ret'.val])
              ELSE rec
    /\ UNCHANGED <<it, keys, records, data, edit, trig, codes>>

NextStrict ==
    \/ \E a \in StrictArgs : StrictNew(a)
    \/ \E f \in {4, 5, 10, 11} : StrictAssignFramesPerDirection(PyInt(ToInt2(f)))
    \/ StrictAssignFramesPerDirection(PyInt(Int2(-1, 65535)))
    \/ \E t \in TriggerLists : StrictAssignTriggers(t)
    \/ \E i \in 1..MaxTriggers, f \in {3, 100, 144} : StrictAssignFrame(i, PyInt(f))
    \/ \E i \in 1..MaxTriggers, c \in {3, 4} : StrictAssignCode(i, PyInt(c))
    \/ \E n \in {Str7(66, 66), <<66>>} : StrictAssignCofName(PyStr(n))
    \/ \E a \in {PyInt(ToInt2(7)), PyNone} : StrictAssignAnimationSpeed(a)

SpecStrict == Init /\ [][NextStrict]_vars

(***************************************************************************)
(* Properties.                                                             *)
(***************************************************************************)
\* the written table still has the blocks and records dumps laid out: it is
\* as written, or one byte inside a record was changed
LayoutKept ==
    \/ edit.kind = "none"
    \/ /\ edit.kind = "patch"
       /\ \E i \in 1..Len(records) :
            RecordStart(i) <= edit.pos /\ edit.pos < RecordStart(i) + RECORD_SIZE

\* the identifier held by the name field of the record at offset s of data
NameAt(s) == BeforeNull(SubSeq(data, s + 1, s + COF_FIELD_SIZE))

\* the frame-code array of the record at offset s of data holds a byte
\* outside {0, 1, 2, 3}
BadCodeAt(s) ==
    \E f \in 1..FRAME_MAX : data[s + COF_FIELD_SIZE + 8 + f] \notin 0..CODE_MAX

(* C1: Round trip of the table codec: for a list of Records with ASCII     *)
(* names dumps succeeds, and loads of what dumps wrote succeeds and        *)
(* returns as many records as the list has, the record of list index i at  *)
(* the position given by the number of records of a smaller hash, or of    *)
(* the same hash and a smaller index, equal to it in all four fields.      *)
RoundTrip ==
    /\ (call.fn = "dumps" /\ \A i \in 1..Len(records) : IsAscii(records[i].cof_name))
        => ret.ok
    /\ (call.fn = "loads" /\ edit.kind = "none") =>
        /\ ret.ok
        /\ Len(ret.val) = Len(records)
        /\ \A i \in 1..Len(records) : ret.val[WrittenBefore(i) + 1] = records[i]
        /\ \A k \in 1..(Len(ret.val) - 1) :
            hash_cof_name(ret.val[k].cof_name) <= hash_cof_name(ret.val[k + 1].cof_name)

RoundTripWitness ==
    /\ call.fn = "loads" /\ edit.kind = "none" /\ ret.ok
    /\ Len(records) = 2
    /\ HashOf(1) > HashOf(2)
    /\ ret.val = <<records[2], records[1]>>

(* C2: Bucket consistency: when loads returns, every record of the list    *)
(* blocks[k] it built has hash k; and when the name field of a record of   *)
(* the written table holds an identifier whose hash is not the index of    *)
(* the block the record lies in, loads raises AnimDataError.               *)
BucketConsistency ==
    call.fn = "loads" =>
        /\ ret.ok =>
            LET b == loads_blocks(data).val.blocks
            IN  /\ Len(b) = BLOCK_COUNT
                /\ \A k \in 1..Len(b) : \A i \in 1..Len(b[k]) :
                    hash_cof_name(b[k][i].cof_name) = k - 1
        /\ ( /\ LayoutKept
             /\ \E i \in 1..Len(records) :
                    hash_cof_name(NameAt(RecordStart(i))) # HashOf(i) )
            => (~ret.ok /\ ret.exc = "AnimDataError")

BucketConsistencyWitness ==
    /\ call.fn = "loads" /\ edit.kind = "patch" /\ LayoutKept
    /\ ~ret.ok /\ ret.msg = "Incorrect hash"
    /\ \E i \in 1..Len(records) :
        /\ ret.offset = RecordStart(i)
        /\ hash_cof_name(NameAt(RecordStart(i))) # HashOf(i)

(* C3: Exact consumption: when loads returns, its cursor is at len(data),  *)
(* which is 256 counts and 160 bytes per returned record; a table loads    *)
(* has accepted makes loads raise AnimDataError once it is truncated or    *)
(* followed by extra bytes.                                                *)
ExactConsumption ==
    call.fn = "loads" =>
        /\ ret.ok =>
            /\ loads_blocks(data).val.offset = Len(data)
            /\ Len(data) = BLOCK_COUNT * RECORD_COUNT_SIZE + RECORD_SIZE * Len(ret.val)
        /\ edit.kind \in {"truncate", "extend"} =>
            (~ret.ok /\ ret.exc = "AnimDataError")

ExactConsumptionWitness ==
    /\ call.fn = "loads" /\ edit.kind = "truncate"
    /\ \E i \in 1..Len(records) : edit.pos = RecordStart(i) + COF_FIELD_SIZE + 8 + 72
    /\ ~ret.ok /\ ret.msg = "Cannot unpack record"

(* C7: Invalid trigger codes on decode: when the frame-code array of the   *)
(* record at an offset holds a byte outside {0,1,2,3}, unpack_record at    *)
(* that offset raises AnimDataError with that offset, and loads of a table *)
(* holding such a record raises AnimDataError with the offset at which     *)
(* such a record starts.                                                   *)
InvalidCodeRejected ==
    /\ ( /\ call.fn = "unpack_record"
         /\ call.arg + RECORD_SIZE <= Len(data)
         /\ BadCodeAt(call.arg) )
        => (~ret.ok /\ ret.exc = "AnimDataError" /\ ret.offset = call.arg)
    /\ ( /\ call.fn = "loads"
         /\ LayoutKept
         /\ \E i \in 1..Len(records) : BadCodeAt(RecordStart(i)) )
        => /\ ~ret.ok
           /\ ret.exc = "AnimDataError"
           /\ \E i \in 1..Len(records) :
                BadCodeAt(RecordStart(i)) /\ ret.offset = RecordStart(i)

InvalidCodeRejectedWitness ==
    /\ call.fn = "loads" /\ edit.kind = "patch" /\ edit.val = 255
    /\ ~ret.ok /\ ret.msg = "Invalid record field"
    /\ ret.offset \in RecordStarts
    /\ edit.pos = ret.offset + RECORD_SIZE - 1
    /\ BadCodeAt(ret.offset)

(* C8: Every failure of loads is an AnimDataError whose offset is set and  *)
(* lies in [0, len(data)]: where a record count or a record does not fit   *)
(* in the data, where a record that fits was refused, or the cursor before *)
(* the end of the data at the size check.                                  *)
LoadsErrors ==
    (call.fn = "loads" /\ ~ret.ok) =>
        /\ ret.exc = "AnimDataError"
        /\ ret.offset # None
        /\ 0 <= ret.offset /\ ret.offset <= Len(data)
        /\ ret.msg \in {"Cannot unpack record count", "Cannot unpack record",
                        "Invalid record field", "Incorrect hash",
                        "Data size mismatch"}
        /\ ret.msg = "Cannot unpack record count"
            => ret.offset + RECORD_COUNT_SIZE > Len(data)
        /\ ret.msg = "Cannot unpack record" => ret.offset + RECORD_SIZE > Len(data)
        /\ ret.msg \in {"Invalid record field", "Incorrect hash"} =>
            /\ ret.offset + RECORD_SIZE <= Len(data)
            /\ LayoutKept => ret.offset \in RecordStarts
        /\ ret.msg = "Data size mismatch" => ret.offset < Len(data)

LoadsErrorsWitness ==
    /\ call.fn = "loads" /\ ~ret.ok
    /\ ret.msg = "Cannot unpack record count"
    /\ ret.offset > 0

\* where dumps writes the count of block b
BlockStart(b) ==
    RECORD_COUNT_SIZE * b
    + RECORD_SIZE * Cardinality({i \in 1..Len(records) : HashOf(i) < b})

(* C9: Encoded layout: what dumps returns is 256 * 4 + 160 * len(L) bytes  *)
(* long; the count of block b, after the counts and records of the blocks  *)
(* before it, is the number of records of hash b as four bytes, least      *)
(* significant first; each record takes 160 bytes: the name and a null     *)
(* byte, the two integers least significant byte first, and 144 codes.     *)
EncodedLayout ==
    (call.fn = "dumps" /\ ret.ok) =>
        /\ Len(ret.val) = BLOCK_COUNT * 4 + 160 * Len(records)
        /\ \A b \in 0..(BLOCK_COUNT - 1) :
            SubSeq(ret.val, BlockStart(b) + 1, BlockStart(b) + 4)
                = <<Cardinality({i \in 1..Len(records) : HashOf(i) = b}), 0, 0, 0>>
        /\ \A i \in 1..Len(records) :
            LET s == RecordStart(i)
                r == records[i]
            IN  /\ SubSeq(ret.val, s + 1, s + 8) = r.cof_name \o <<0>>
                /\ ret.val[s + 9] + 256 * ret.val[s + 10] = r.frames_per_direction.lo
                /\ ret.val[s + 11] + 256 * ret.val[s + 12] = r.frames_per_direction.hi
                /\ ret.val[s + 13] + 256 * ret.val[s + 14] = r.animation_speed.lo
                /\ ret.val[s + 15] + 256 * ret.val[s + 16] = r.animation_speed.hi
                /\ \A f \in 0..143 :
                    ret.val[s + 17 + f]
                        = IF f \in DOMAIN r.triggers THEN r.triggers[f] ELSE 0

EncodedLayoutWitness ==
    /\ call.fn = "dumps" /\ ret.ok
    /\ Len(records) = 1
    /\ records[1].cof_name = Str7(65, 65)
    /\ Len(ret.val) = 1184
    /\ SubSeq(ret.val, 4 * 199 + 1, 4 * 199 + 4) = <<1, 0, 0, 0>>
    /\ \A b \in 0..255 : b # 199 => ret.val[BlockStart(b) + 1] = 0

\* two pairs of the list given to ActionTriggers() name the same frame
HasDuplicateFrame(pairs) ==
    \E i, j \in 1..Len(pairs) : i < j /\ pairs[i][1] = pairs[j][1]

(* C4: Duplicate-frame rejection: ActionTriggers built from a list of      *)
(* (frame, code) pairs in which a frame appears twice raises ValueError.   *)
DuplicateFrameRejected ==
    (call.fn = "ActionTriggers" /\ HasDuplicateFrame(call.arg))
        => (~ret.ok /\ ret.exc = "ValueError")

\* a string that is no identifier: not 7 characters long, or holding U+0000
BadName(n) == Len(n) # 7 \/ \E i \in 1..Len(n) : n[i] = 0

(* C5: Invalid identifiers are rejected: Record() and the assignment to    *)
(* cof_name raise ValueError for a string that is not 7 characters long or *)
(* holds a null character, so a Record never holds such a name; and the    *)
(* name field pack_record writes is the 7 characters and one null byte,    *)
(* nothing cut off, nothing padded beyond it.                              *)
InvalidIdentifierRejected ==
    /\ (call.fn = "Record" /\ BadName(call.arg[1].v))
        => (~ret.ok /\ ret.exc = "ValueError")
    /\ (call.fn = "cof_name" /\ BadName(call.arg.v))
        => (~ret.ok /\ ret.exc = "ValueError" /\ rec.obj.cof_name # call.arg.v)
    /\ rec.live => ~BadName(rec.obj.cof_name)
    /\ (call.fn = "pack_record" /\ ret.ok) =>
        /\ Len(ret.val) = 160
        /\ SubSeq(ret.val, 1, 7) = rec.obj.cof_name
        /\ ret.val[8] = 0

InvalidIdentifierRejectedWitness ==
    /\ call.fn = "cof_name"
    /\ Len(call.arg.v) = 6
    /\ ~ret.ok /\ ret.exc = "ValueError"
    /\ rec.live /\ Len(rec.obj.cof_name) = 7

\* a trigger set with every frame in [0, 144) and every code in [1, 3]
ValidTriggerSet(T) == \A f \in DOMAIN T : f \in 0..143 /\ T[f] \in 1..3

\* c holds 144 values, at index f the code T has at frame f, or 0
IsCodesOf(c, T) ==
    /\ Len(c) = 144
    /\ \A f \in 0..143 : c[f + 1] = IF f \in DOMAIN T THEN T[f] ELSE 0

(* C6: Trigger codec round trip: for a trigger set T with frames in        *)
(* [0, 144) and codes in [1, 3], to_codes yields exactly 144 values, the   *)
(* code of frame f at index f and 0 for a frame T does not hold, and       *)
(* from_codes of those values gives back a trigger set equal to T.         *)
TriggerCodecRoundTrip ==
    /\ (call.fn = "to_codes" /\ ValidTriggerSet(trig.obj)) =>
        (ret.ok /\ ret.val = codes /\ IsCodesOf(codes, trig.obj))
    /\ (call.fn = "next" /\ ValidTriggerSet(trig.obj)) =>
        IF ret.ok
            THEN /\ it.obj.frame = Len(codes) /\ it.obj.frame <= 144
                 /\ ret.val = codes[Len(codes)]
                 /\ ret.val = IF (it.obj.frame - 1) \in DOMAIN trig.obj
                                THEN trig.obj[it.obj.frame - 1] ELSE 0
        ELSE it.obj.frame = 144 /\ Len(codes) = 144
    /\ ( /\ call.fn = "from_codes"
         /\ ValidTriggerSet(trig.obj)
         /\ IsCodesOf(codes, trig.obj) ) => (ret.ok /\ ret.val = trig.obj)

TriggerCodecRoundTripWitness ==
    /\ call.fn = "from_codes" /\ ret.ok
    /\ DOMAIN ret.val = {0, 143}
    /\ ret.val[0] = 3 /\ ret.val[143] = 1
    /\ Len(codes) = 144
    /\ codes[1] = 3 /\ codes[144] = 1 /\ codes[2] = 0
    /\ ret.val = trig.obj

\* the code point(s) str.upper() gives for a character of HashAlphabet, added up
UpperCodeSum(c) ==
    CASE c = 97 -> 65
      [] c = 223 -> 83 + 83
      [] OTHER -> c

RECURSIVE CodeSum(_, _)
CodeSum(s, i) == IF i > Len(s) THEN 0 ELSE UpperCodeSum(s[i]) + CodeSum(s, i + 1)

IsAsciiLetter(c) == c \in 65..90 \/ c \in 97..122

\* s and t are the same string up to the case of ASCII letters
SameUpToAsciiCase(s, t) ==
    /\ Len(s) = Len(t)
    /\ \A i \in 1..Len(s) :
        \/ s[i] = t[i]
        \/ /\ IsAsciiLetter(s[i]) /\ IsAsciiLetter(t[i])
           /\ LowerChar(s[i]) = LowerChar(t[i])

(* C10: hash_cof_name is the sum of the code points of the upper-cased     *)
(* string modulo 256, a value in [0, 256), for every string; and two       *)
(* strings that differ only in the case of their ASCII letters, as two     *)
(* identifiers of 7 ASCII characters that differ in letter case do, have   *)
(* the same hash.                                                          *)
HashCaseInsensitive ==
    call.fn = "hash_cof_name" =>
        /\ ret.val \in 0..255
        /\ ret.val = CodeSum(call.arg, 1) % 256
        /\ \A t \in HashInputs :
            SameUpToAsciiCase(call.arg, t) => hash_cof_name(t) = ret.val

HashCaseInsensitiveWitness ==
    /\ call.fn = "hash_cof_name"
    /\ call.arg = Str7(97, 97)
    /\ ret.val = 199
    /\ hash_cof_name(Str7(65, 65)) = 199

(* C11: AnimationRecord values are read-only after construction: once a    *)
(* Record has been constructed, no operation offered by Record or by its   *)
(* trigger set changes its identifier, frames_per_direction, speed or      *)
(* triggers.                                                               *)
ReadOnlyAfterConstruction == [][rec.live => rec' = rec]_vars

\* the four fields of r are valid
ValidRecord(r) ==
    /\ Len(r.cof_name) = 7
    /\ \A i \in 1..7 : r.cof_name[i] # 0
    /\ r.frames_per_direction.hi \in 0..65535
    /\ r.frames_per_direction.lo \in 0..65535
    /\ r.animation_speed.hi \in 0..65535
    /\ r.animation_speed.lo \in 0..65535
    /\ ValidTriggerSet(r.triggers)

(* C18: Validity is an invariant of a Record under mutation: after any     *)
(* field assignments and trigger-set operations, accepted or refused, the  *)
(* Record has an identifier of 7 characters without null,                  *)
(* frames_per_direction and animation_speed in [0, 2^32 - 1], and          *)
(* triggers with frames in [0, 144) and codes in [1, 3].                   *)
RecordValid == rec.live => ValidRecord(rec.obj)

\* the field assignments of a Record and the operations on its trigger set
Mutators ==
    {"cof_name", "frames_per_direction", "animation_speed", "triggers",
     "triggers.__setitem__", "triggers.update", "triggers.__delitem__",
     "triggers |=", "triggers.__ior__"}

(* C19: A rejected mutation is atomic: when a field assignment on a Record *)
(* or an operation on its trigger set (triggers[frame] = code, a bulk      *)
(* update with an invalid entry) raises, the Record and its trigger set    *)
(* are exactly as they were before, no entry of the failed operation       *)
(* applied.                                                                *)
RejectedMutationAtomic ==
    [][(rec.live /\ call'.fn \in Mutators /\ ~ret'.ok) => rec' = rec]_vars

\* a (frame, code) pair __setitem__ accepts
ValidPair(p) == p[1].v \in 0..143 /\ p[2].v \in 1..3

\* a value both integer validators accept: an int in [0, 2^32 - 1]
ValidDwordArg(a) == a.t = "int" /\ a.v.hi \in 0..65535 /\ a.v.lo \in 0..65535

\* a list of (frame, code) pairs with every frame in [0, 144) and code in [1, 3]
ValidPairs(pairs) == \A i \in 1..Len(pairs) : ValidPair(pairs[i])

\* the Record holds a trigger whose frame is >= its frames_per_direction
HasOutOfRangeTrigger(r) ==
    \E f \in DOMAIN r.triggers :
        r.frames_per_direction.hi = 0 /\ r.frames_per_direction.lo <= f

(* C12: a trigger frame >= frames_per_direction (and < 144) is never an    *)
(* error: Record() succeeds whenever each argument is valid by itself, an  *)
(* assignment of a valid frames_per_direction or of valid triggers         *)
(* succeeds whatever the other field holds, pack_record and dumps of a     *)
(* Record with an ASCII name succeed, and unpack_record and loads of those *)
(* bytes give back the Record when its triggers are valid ones (frames in  *)
(* [0, 144), codes in [1, 3]); only check_out_of_bounds_triggers reports   *)
(* the condition, and it returns without raising.                          *)
SoftOutOfRange ==
    /\ ( /\ call.fn = "Record"
         /\ ~BadName(call.arg[1].v)
         /\ ValidDwordArg(call.arg[2]) /\ ValidDwordArg(call.arg[3])
         /\ ValidPairs(call.arg[4]) ) => ret.ok
    /\ (call.fn = "frames_per_direction" /\ ValidDwordArg(call.arg)) => ret.ok
    /\ (call.fn = "triggers" /\ ValidPairs(call.arg)) => ret.ok
    /\ (call.fn \in {"pack_record", "dumps"} /\ IsAscii(rec.obj.cof_name)) => ret.ok
    /\ (call.fn = "unpack_record" /\ ValidTriggerSet(rec.obj.triggers))
        => (ret.ok /\ ret.val.record = rec.obj)
    /\ (call.fn = "loads" /\ ValidTriggerSet(rec.obj.triggers))
        => (ret.ok /\ ret.val = <<rec.obj>>)
    /\ call.fn = "check_out_of_bounds_triggers" =>
        (ret.ok /\ (ret.val # <<>> <=> HasOutOfRangeTrigger(rec.obj)))

SoftOutOfRangeWitness ==
    /\ rec.live
    /\ call.fn = "loads" /\ ret.ok
    /\ ret.val[1].frames_per_direction = ToInt2(10)
    /\ DOMAIN ret.val[1].triggers = {5, 10, 20}
    /\ HasOutOfRangeTrigger(rec.obj)

(* C14: check_out_of_bounds_triggers flags exactly the trigger frames f of *)
(* the record with f >= frames_per_direction, a frame equal to it          *)
(* included, each once and in ascending order, never raises, and leaves    *)
(* the record, the order of its dict of triggers included, as it was.      *)
OutOfBoundsFlagged ==
    /\ [](call.fn = "check_out_of_bounds_triggers" =>
            /\ ret.ok
            /\ {ret.val[i] : i \in 1..Len(ret.val)}
                = {f \in DOMAIN rec.obj.triggers :
                        /\ rec.obj.frames_per_direction.hi = 0
                        /\ f >= rec.obj.frames_per_direction.lo}
            /\ \A i, j \in 1..Len(ret.val) : i < j => ret.val[i] < ret.val[j])
    /\ [][call'.fn = "check_out_of_bounds_triggers"
            => (rec' = rec /\ keys' = keys)]_vars

OutOfBoundsFlaggedWitness ==
    /\ call.fn = "check_out_of_bounds_triggers"
    /\ rec.obj.frames_per_direction = ToInt2(10)
    /\ DOMAIN rec.obj.triggers = {5, 10, 20}
    /\ ret.val = <<10, 20>>

(* C16: every Record that construction accepts is encodable: pack_record   *)
(* returns 160 bytes without raising, and dumps of a list of constructed   *)
(* Records does not fail.                                                  *)
AcceptedIsEncodable ==
    /\ call.fn = "pack_record" => (ret.ok /\ Len(ret.val) = 160)
    /\ call.fn = "dumps" => ret.ok

\* two tagged values are of one type and equal
SameValue(x, y) == x.t = y.t /\ x.v = y.v

\* two interchange mappings hold the same four entries, the triggers in the
\* same order
SameDict(a, b) ==
    /\ SameValue(a.cof_name, b.cof_name)
    /\ SameValue(a.frames_per_direction, b.frames_per_direction)
    /\ SameValue(a.animation_speed, b.animation_speed)
    /\ Len(a.triggers) = Len(b.triggers)
    /\ \A i \in 1..Len(a.triggers) :
        /\ SameValue(a.triggers[i][1], b.triggers[i][1])
        /\ SameValue(a.triggers[i][2], b.triggers[i][2])

(* C15: Interchange mapping round trip: make_dict gives the four fields of *)
(* the Record, the triggers listed by ascending frame whatever the order   *)
(* in which its dict holds them; for a valid Record, from_dict of that     *)
(* mapping gives a Record equal to it in all four fields, also when the    *)
(* frame keys were turned into strings in between, as JSON does.           *)
DictRoundTrip ==
    /\ call.fn = "make_dict" =>
        /\ ret.val.cof_name.v = rec.obj.cof_name
        /\ ret.val.frames_per_direction.v = rec.obj.frames_per_direction
        /\ ret.val.animation_speed.v = rec.obj.animation_speed
        /\ Len(ret.val.triggers) = Cardinality(DOMAIN rec.obj.triggers)
        /\ \A i \in 1..Len(ret.val.triggers) :
            /\ ret.val.triggers[i][1].v \in DOMAIN rec.obj.triggers
            /\ ret.val.triggers[i][2].v = rec.obj.triggers[ret.val.triggers[i][1].v]
        /\ \A i, j \in 1..Len(ret.val.triggers) :
            i < j => ret.val.triggers[i][1].v < ret.val.triggers[j][1].v
    /\ call.fn = "json" =>
        \A i \in 1..Len(ret.val.triggers) : ret.val.triggers[i][1].t = "str"
    /\ ( /\ call.fn = "from_dict"
         /\ rec.live /\ ValidRecord(rec.obj)
         /\ \/ SameDict(call.arg, make_dict(rec.obj, keys))
            \/ SameDict(call.arg, JsonKeys(make_dict(rec.obj, keys))) )
        => (ret.ok /\ ret.val = rec.obj)

DictRoundTripWitness ==
    /\ call.fn = "from_dict" /\ ret.ok
    /\ keys = <<10, 5, 20>>
    /\ Len(call.arg.triggers) = 3
    /\ \A i \in 1..3 : call.arg.triggers[i][1].t = "str"
    /\ call.arg.triggers[1][1].v = <<53>>
    /\ call.arg.triggers[2][1].v = <<49, 48>>
    /\ call.arg.triggers[3][1].v = <<50, 48>>
    /\ DOMAIN ret.val.triggers = {5, 10, 20}
    /\ ret.val = rec.obj

\* how many entries of the sequence q are equal to x
Count(q, x) == Cardinality({i \in 1..Len(q) : q[i] = x})

(* C13: Duplicate-identifier diagnostic: check_duplicate_cof_names never   *)
(* raises, reports every identifier of the list once per occurrence after  *)
(* its first (identifiers compared as they are written), reports nothing    *)
(* else, and leaves the list of records as it was.                         *)
DuplicatesReported ==
    /\ [](call.fn = "check_duplicate_cof_names" =>
            /\ ret.ok
            /\ \A i \in 1..Len(records) :
                Count(ret.val, records[i].cof_name) + 1
                    = Count([k \in 1..Len(records) |-> records[k].cof_name],
                            records[i].cof_name)
            /\ \A k \in 1..Len(ret.val) :
                \E i \in 1..Len(records) : records[i].cof_name = ret.val[k])
    /\ [][call'.fn = "check_duplicate_cof_names" => records' = records]_vars

DuplicatesReportedWitness ==
    /\ call.fn = "check_duplicate_cof_names"
    /\ Len(records) = 2
    /\ records[1].cof_name = records[2].cof_name
    /\ ret.val = <<records[1].cof_name>>

(* C17: Byte-exact re-encoding: for every byte string that loads accepts,  *)
(* as written by dumps or with a byte changed afterwards, dumps of the     *)
(* list loads returned is that byte string.                                *)
ReencodeExact ==
    call.fn = "dumps(loads)" => (ret.ok /\ ret.val = data)

ReencodeExactWitness ==
    /\ call.fn = "dumps(loads)" /\ ret.ok
    /\ edit.kind = "patch" /\ edit.val = 97
    /\ \E i \in 1..Len(records) :
        edit.pos = RecordStart(i) /\ records[i].cof_name[1] = 65
    /\ ret.val = data

\* some trigger of the list has a frame greater than the two-limb integer n
FrameBeyond(triggers, n) ==
    \E i \in 1..Len(triggers) : n.hi = 0 /\ triggers[i].frame > n.lo

\* a list of ActionTrigger objects with pairwise different frames
DistinctTriggers(value) ==
    /\ \A i \in 1..Len(value) : value[i].t = "ActionTrigger"
    /\ \A i, j \in 1..Len(value) : i < j => value[i].v.frame # value[j].v.frame

\* the checks of animdata.py at construction and at the two assignments:
\* arguments that are valid one by one are refused, with ValueError, exactly
\* when a trigger frame is greater than frames_per_direction
StrictChecksAtAssignment ==
    /\ ( /\ call.fn = "Record"
         /\ ~BadName(call.arg[1].v)
         /\ DistinctTriggers(call.arg[4]) ) =>
            /\ ret.ok <=> ~FrameBeyond([i \in 1..Len(call.arg[4]) |-> call.arg[4][i].v],
                                       call.arg[2].v)
            /\ ~ret.ok => ret.exc = "ValueError"
    /\ (call.fn = "frames_per_direction" /\ ValidDwordArg(call.arg)) =>
            /\ ret.ok <=> ~FrameBeyond(rec.obj.triggers, call.arg.v)
            /\ ~ret.ok => ret.exc = "ValueError"
    /\ (call.fn = "triggers" /\ DistinctTriggers(call.arg)) =>
            /\ ret.ok <=> ~FrameBeyond([i \in 1..Len(call.arg) |-> call.arg[i].v],
                                       rec.obj.frames_per_direction)
            /\ ~ret.ok => ret.exc = "ValueError"

\* no Record of animdata.py holds a trigger beyond its frames_per_direction
StrictNoTriggerBeyond ==
    rec.live => ~FrameBeyond(rec.obj.triggers, rec.obj.frames_per_direction)

(* C20: Strict historical variant (animdata.py): a Record is refused with  *)
(* ValueError exactly when a trigger frame is greater than                 *)
(* frames_per_direction, at construction and on every assignment of        *)
(* frames_per_direction or of triggers (a frame equal to it is accepted),  *)
(* so no Record reached holds a trigger with frame > frames_per_direction. *)
StrictVariantEnforced == StrictChecksAtAssignment /\ StrictNoTriggerBeyond

=============================================================================
